---- MODULE Spec2Model ----
(***************************************************************************)
(* Model of the restock decision engine of src/interface.py: the rows of   *)
(* the selected stock are sorted by date, turned into a daily burn signal, *)
(* handed to two Prophet models, and the two 30-day forecasts are resolved *)
(* with a historical-average fallback into an order quantity.              *)
(*                                                                         *)
(* Numbers that pandas holds as floats are modelled as exact rationals     *)
(* [nan, num, den]; a missing cell is NaN (quantity) or NaT (date).        *)
(* Prophet itself is an external library: whether a fit raises, and the    *)
(* totals it predicts, are nondeterministic inputs.                        *)
(***************************************************************************)
EXTENDS Integers, Sequences, FiniteSets

\* ---------------------------------------------------------------- bounds
MaxRows == 4        \* most rows of the selected stock in the sheet
MaxDate == 3        \* dates are days 1..MaxDate
MaxQty == 1         \* on-hand quantities are 0..MaxQty
ForecastStep == 15  \* raw forecast totals are -ForecastStep, 0, ForecastStep

\* ------------------------------------------------------ program constants
Horizon == 30          \* periods=30, tail(30).sum(), avg_daily_burn * 30
ReactiveWindow == 30   \* df_prophet.tail(30)
MinPoints == 2         \* the length check of line 62

\* ------------------------------------------------------------ table cells
Num(v) == [kind |-> "num", val |-> v]
NaN == [kind |-> "nan", val |-> 0]
NaT == [kind |-> "nat", val |-> 0]
Text == [kind |-> "text", val |-> 0]

DateCells == {Num(d) : d \in 1..MaxDate} \cup {NaT}
StockCells == {Num(q) : q \in 0..MaxQty} \cup {NaN}

\* the Date column of n rows: the sheet logs a stock at most once a day
DateColumns(n) ==
  {d \in [1..n -> DateCells] :
     \A i, j \in 1..n : (i # j /\ d[i].kind = "num") => d[i] # d[j]}

\* the Current_Stock column of n rows: float64 with NaN for a missing cell,
\* or, when some quantity did not parse, strings with NaN for a missing cell
NumericColumns(n) == [1..n -> StockCells]
TextColumns(n) == {c \in [1..n -> {Text, NaN}] : \E i \in 1..n : c[i] = Text}
StockColumns(n) == NumericColumns(n) \cup TextColumns(n)

\* the sheet of n rows with these two columns
Table(n, d, c) == [i \in 1..n |-> [Date |-> d[i], Current_Stock |-> c[i]]]

HasText(rows) == \E i \in 1..Len(rows) : rows[i].Current_Stock = Text

\* ------------------------------------------------------------ float values
Rat(n, d) == [nan |-> FALSE, num |-> n, den |-> d]
FNaN == [nan |-> TRUE, num |-> 0, den |-> 1]
Zero == Rat(0, 1)
ToFloat(c) == IF c.kind = "num" THEN Rat(c.val, 1) ELSE FNaN

\* comparisons with NaN are False, as in IEEE arithmetic
FGT(a, b) == ~a.nan /\ ~b.nan /\ a.num * b.den > b.num * a.den
\* >=, = and + are not used by the script; the properties below use them
FGE(a, b) == ~a.nan /\ ~b.nan /\ a.num * b.den >= b.num * a.den
FEq(a, b) == ~a.nan /\ ~b.nan /\ a.num * b.den = b.num * a.den
FSub(a, b) == IF a.nan \/ b.nan THEN FNaN
              ELSE Rat(a.num * b.den - b.num * a.den, a.den * b.den)
FAdd(a, b) == IF a.nan \/ b.nan THEN FNaN
              ELSE Rat(a.num * b.den + b.num * a.den, a.den * b.den)

\* Python's max(a, b): the first argument unless the second is greater
PyMax(a, b) == IF FGT(b, a) THEN b ELSE a

\* ------------------------------------------------- data cleaning (56-60)
Indices(rows) == 1..Len(rows)
ValidDateIdx(rows) == {i \in Indices(rows) : rows[i].Date.kind = "num"}
NaTIdx(rows) == Indices(rows) \ ValidDateIdx(rows)

\* the indices in S of the rows with the smallest date
Earliest(rows, S) == {i \in S : \A j \in S : rows[i].Date.val <= rows[j].Date.val}

\* every order a sort by date can leave the dated rows in: quicksort is not
\* stable, so rows with equal dates may come out in any order
RECURSIVE DatedOrders(_, _)
DatedOrders(rows, S) ==
  IF S = {} THEN {<<>>}
  ELSE UNION {{<<i>> \o t : t \in DatedOrders(rows, S \ {i})} : i \in Earliest(rows, S)}

\* the indices of a set in increasing order
RECURSIVE Ascending(_)
Ascending(S) ==
  IF S = {} THEN <<>>
  ELSE LET m == CHOOSE i \in S : \A j \in S : i <= j
       IN <<m>> \o Ascending(S \ {m})

\* mutant: the sort of line 56 is left out, the rows stay as supplied
SortOrders_None(rows) == {Ascending(Indices(rows))}

\* data.sort_values('Date'): dated rows ascending, NaT rows last in their
\* original order (na_position='last')
SortOrders(rows) ==
  {o \o Ascending(NaTIdx(rows)) : o \in DatedOrders(rows, ValidDateIdx(rows))}

Reorder(rows, order) == [k \in 1..Len(order) |-> rows[order[k]]]

\* Series.shift(1): the previous row's value, NaN for the first row
Shift1(col) == [i \in 1..Len(col) |-> IF i = 1 THEN NaN ELSE col[i - 1]]

\* float subtraction on cells: NaN if either side is missing
CellSub(a, b) == IF a.kind = "num" /\ b.kind = "num" THEN Num(a.val - b.val) ELSE NaN

\* mutant: the clamp of line 58 is left out
ClampNegative_None(c) == c

\* data.loc[data['y'] < 0, 'y'] = 0   (NaN < 0 is False)
ClampNegative(c) == IF c.kind = "num" /\ c.val < 0 THEN Num(0) ELSE c

\* data['Current_Stock'].shift(1) - data['Current_Stock'], then the clamp
BurnColumn(col) == [i \in 1..Len(col) |-> ClampNegative(CellSub(Shift1(col)[i], col[i]))]

StockColumn(rows) == [i \in 1..Len(rows) |-> rows[i].Current_Stock]

\* the sorted frame with its new column y
WithBurn(rows) ==
  LET y == BurnColumn(StockColumn(rows))
  IN [i \in 1..Len(rows) |->
        [Date |-> rows[i].Date, Current_Stock |-> rows[i].Current_Stock, y |-> y[i]]]

\* data[['Date','y']].rename(columns={'Date':'ds'}).dropna()
RECURSIVE DropNA(_)
DropNA(frame) ==
  IF frame = <<>> THEN <<>>
  ELSE LET r == Head(frame)
       IN IF r.Date.kind = "num" /\ r.y.kind = "num"
          THEN <<[ds |-> r.Date.val, y |-> r.y.val]>> \o DropNA(Tail(frame))
          ELSE DropNA(Tail(frame))

\* mutant: one point is taken to be enough
InsufficientData_One(df) == Len(df) < 1

\* len(df_prophet) < 2
InsufficientData(df) == Len(df) < MinPoints

\* df.tail(n)
TailN(df, n) == IF Len(df) <= n THEN df ELSE SubSeq(df, Len(df) - n + 1, Len(df))

\* ------------------------------------------------ resolver (lines 79-92)
RECURSIVE SumY(_)
SumY(df) == IF df = <<>> THEN 0 ELSE Head(df).y + SumY(Tail(df))

\* df_prophet['y'].mean()
Mean(df) == Rat(SumY(df), Len(df))

\* avg_daily_burn * 30
Fallback(avg_daily_burn) == Rat(avg_daily_burn.num * Horizon, avg_daily_burn.den)

\* mutant: the raw total is used without the floor
Floored_None(val, fallback) == val

\* max(f365_val, fallback) and max(f30_val, fallback)
Floored(val, fallback) == PyMax(val, fallback)

\* max(f365_final, f30_final)
FinalNeed(f365_final, f30_final) == PyMax(f365_final, f30_final)

\* data['Current_Stock'].iloc[-1]: the last row of the sorted frame
CurrentStock(frame) == ToFloat(frame[Len(frame)].Current_Stock)

\* mutant: the difference is used without max(0, .)
OrderQty_NoFloor(final_need, current_stock) == FSub(final_need, current_stock)

\* max(0, final_need - current_stock)
OrderQty(final_need, current_stock) == PyMax(Zero, FSub(final_need, current_stock))

\* mutant: a tie is reported as the seasonal model
WinningModel_TieSeasonal(f365_final, f30_final) ==
  IF FGE(f365_final, f30_final) THEN "Seasonal Baseline" ELSE "Recent Anomaly Detection"

WinningModel(f365_final, f30_final) ==
  IF FGT(f365_final, f30_final) THEN "Seasonal Baseline" ELSE "Recent Anomaly Detection"

\* everything lines 80-92 compute and lines 95-108 display
Resolve(frame, df, s_val, r_val) ==
  LET avg_daily_burn == Mean(df)
      fallback == Fallback(avg_daily_burn)
      f365_final == Floored(s_val, fallback)
      f30_final == Floored(r_val, fallback)
      final_need == FinalNeed(f365_final, f30_final)
      current_stock == CurrentStock(frame)
  IN [f365_val |-> s_val,
      f30_val |-> r_val,
      avg_daily_burn |-> avg_daily_burn,
      fallback |-> fallback,
      f365_final |-> f365_final,
      f30_final |-> f30_final,
      final_need |-> final_need,
      current_stock |-> current_stock,
      order_qty |-> OrderQty(final_need, current_stock),
      winning_model |-> WinningModel(f365_final, f30_final)]

\* mutant: a model that failed to fit is silently replaced by the fallback
OnFitError_Fallback(frame, df) ==
  <<Resolve(frame, df, Fallback(Mean(df)), Fallback(Mean(df)))>>

\* lines 128-129: an exception of a fit is reported with st.error and no
\* recommendation is displayed, whatever the models would have predicted
OnFitError(frame, df) == <<>>

\* the totals a Prophet model may predict for the next 30 days: one
\* negative, zero, one positive
ForecastVals == {Rat(ForecastStep * k, 1) : k \in {0 - 1, 0, 1}}

\* ------------------------------------------------------------------ state
VARIABLES
  pc,          \* where the script stands
  raw_data,    \* the rows of the selected stock, as loaded
  data,        \* the sorted frame with its column y
  df_prophet,  \* the (ds, y) points handed to Prophet
  m365,        \* the seasonal model
  m30,         \* the reactive model
  decision,    \* <<>> or the one displayed recommendation
  err          \* the exception the run ended with

vars == <<pc, raw_data, data, df_prophet, m365, m30, decision, err>>

NoModel == [status |-> "none", history |-> <<>>, fits |-> 0]
Fitted(history) == [status |-> "fitted", history |-> history, fits |-> 1]
Failed(history) == [status |-> "failed", history |-> history, fits |-> 1]

Init ==
  /\ pc = "load"
  /\ raw_data = <<>>
  /\ data = <<>>
  /\ df_prophet = <<>>
  /\ m365 = NoModel
  /\ m30 = NoModel
  /\ decision = <<>>
  /\ err = "none"

\* lines 34-45: the sheet is read and the selected stock's rows are kept
Load ==
  /\ pc = "load"
  /\ \E n \in 0..MaxRows : \E d \in DateColumns(n), c \in StockColumns(n) :
       raw_data' = Table(n, d, c)
  /\ pc' = "ready"
  /\ UNCHANGED <<data, df_prophet, m365, m30, decision, err>>

\* lines 47-49: read_csv or to_datetime raises (unreachable sheet, a date
\* that does not parse); the script stops before any run
LoadFails ==
  /\ pc = "load"
  /\ pc' = "stopped"
  /\ UNCHANGED <<raw_data, data, df_prophet, m365, m30, decision, err>>

\* line 57 on a Current_Stock column of strings: str - str raises TypeError
\* before anything is computed (lines 128-129 report it)
RunTypeError ==
  /\ pc = "ready"
  /\ HasText(raw_data)
  /\ pc' = "error"
  /\ err' = "TypeError"
  /\ UNCHANGED <<raw_data, data, df_prophet, m365, m30, decision>>

\* lines 62-63: too few points, the warning is shown
Insufficient(df) ==
  /\ InsufficientData(df)
  /\ pc' = "insufficient"
  /\ UNCHANGED <<m365, m30, decision, err>>

\* lines 66-67, 128-129: m365.fit(df_prophet) raises
Fit365Raises(frame, df) ==
  /\ ~InsufficientData(df)
  /\ m365' = Failed(df)
  /\ decision' = OnFitError(frame, df)
  /\ pc' = "error"
  /\ err' = "FitError"
  /\ UNCHANGED m30

\* lines 66-70, 128-129: m365 is fit, m30.fit(df_prophet.tail(30)) raises
Fit30Raises(frame, df) ==
  /\ ~InsufficientData(df)
  /\ m365' = Fitted(df)
  /\ m30' = Failed(TailN(df, ReactiveWindow))
  /\ decision' = OnFitError(frame, df)
  /\ pc' = "error"
  /\ err' = "FitError"

\* lines 66-108: both fits succeed, the models predict s_val and r_val,
\* the recommendation is computed and displayed
Decides(frame, df) ==
  /\ ~InsufficientData(df)
  /\ m365' = Fitted(df)
  /\ m30' = Fitted(TailN(df, ReactiveWindow))
  /\ \E s_val \in ForecastVals, r_val \in ForecastVals :
       decision' = <<Resolve(frame, df, s_val, r_val)>>
  /\ pc' = "done"
  /\ UNCHANGED err

\* lines 52-129: the button is pressed on a numeric sheet; the rows are
\* sorted, the burn is computed, the points are extracted, and the run ends
\* in the warning, an error or the recommendation
Run ==
  /\ pc = "ready"
  /\ ~HasText(raw_data)
  /\ \E order \in SortOrders(raw_data) :
       LET frame == WithBurn(Reorder(raw_data, order))
           df == DropNA(frame)
       IN /\ data' = frame
          /\ df_prophet' = df
          /\ \/ Insufficient(df)
             \/ Fit365Raises(frame, df)
             \/ Fit30Raises(frame, df)
             \/ Decides(frame, df)
  /\ UNCHANGED raw_data

\* the button is pressed again: the script runs afresh on the cached rows
Rerun ==
  /\ pc \in {"insufficient", "done", "error"}
  /\ pc' = "ready"
  /\ data' = <<>>
  /\ df_prophet' = <<>>
  /\ m365' = NoModel
  /\ m30' = NoModel
  /\ decision' = <<>>
  /\ err' = "none"
  /\ UNCHANGED raw_data

Next ==
  \/ Load
  \/ LoadFails
  \/ RunTypeError
  \/ Run
  \/ Rerun

Spec == Init /\ [][Next]_vars

\* ================================================================ claims
Produced == decision # <<>>
D == decision[1]

\* the run got past line 60: the points were extracted
Extracted == pc \in {"insufficient", "done"} \/ (pc = "error" /\ err = "FitError")

NonNegative(df) == \A i \in 1..Len(df) : df[i].y >= 0

IsValidRow(r) == r.Date.kind = "num" /\ r.Current_Stock.kind = "num"
AllValid(rows) == \A i \in 1..Len(rows) : IsValidRow(rows[i])

\* a series of readings on days 1, 2, ... and the points the code extracts
ExampleFrame(stocks) ==
  [i \in 1..Len(stocks) |-> [Date |-> Num(i), Current_Stock |-> Num(stocks[i])]]
ExamplePoints(stocks) ==
  LET df == DropNA(WithBurn(Reorder(ExampleFrame(stocks),
                                    CHOOSE o \in SortOrders(ExampleFrame(stocks)) : TRUE)))
  IN [i \in 1..Len(df) |-> df[i].y]

\* the scenarios of the specification, evaluated by the code's operators
Scenario1Points == ExamplePoints(<<100, 90, 80, 70>>)
Scenario2Points == ExamplePoints(<<50, 60, 40>>)
Scenario1Frame == DropNA(WithBurn(ExampleFrame(<<100, 90, 80, 70>>)))
Scenario1Mean == Mean(Scenario1Frame)
Scenario1Fallback == Fallback(Scenario1Mean)
Scenario1Need ==
  FinalNeed(Floored(Rat(0 - 1000, 1), Scenario1Fallback),
            Floored(Rat(0 - 1000, 1), Scenario1Fallback))
Scenario3Order == OrderQty(Rat(300, 1), Rat(40, 1))

\* C1: every point in df_prophet, and every point either model was fit on,
\* has y >= 0, also where the stock rose between two readings.
C1_NonNegativeConsumption ==
  /\ NonNegative(df_prophet)
  /\ NonNegative(m365.history)
  /\ NonNegative(m30.history)

\* a restock between two dated readings reached both fits as a point of 0
C1_Witness ==
  /\ pc = "done"
  /\ m365.history = df_prophet
  /\ m30.history = df_prophet
  /\ \E i \in 2..Len(data) :
       /\ IsValidRow(data[i - 1]) /\ IsValidRow(data[i])
       /\ data[i - 1].Current_Stock.val < data[i].Current_Stock.val
       /\ \E k \in 1..Len(df_prophet) :
            df_prophet[k] = [ds |-> data[i].Date.val, y |-> 0]

\* C2: for n >= 1 valid rows the frame is the rows in ascending date order
\* and df_prophet has exactly n-1 points, the i-th dated as row i+1 and
\* equal to max(0, stock[i] - stock[i+1]); [50,60,40] gives [0,20] and
\* [100,90,80,70] gives [10,10,10].
C2_ExtractorPoints ==
  /\ (Extracted /\ raw_data # <<>> /\ AllValid(raw_data)) =>
       /\ Len(data) = Len(raw_data)
       /\ \A i \in 1..Len(raw_data) : \E j \in 1..Len(data) :
            /\ data[j].Date = raw_data[i].Date
            /\ data[j].Current_Stock = raw_data[i].Current_Stock
       /\ \A i \in 1..(Len(data) - 1) : data[i].Date.val < data[i + 1].Date.val
       /\ Len(df_prophet) = Len(raw_data) - 1
       /\ \A i \in 1..Len(df_prophet) :
            LET delta == data[i].Current_Stock.val - data[i + 1].Current_Stock.val
            IN /\ df_prophet[i].ds = data[i + 1].Date.val
               /\ df_prophet[i].y = IF delta < 0 THEN 0 ELSE delta
  /\ Scenario2Points = <<0, 20>>
  /\ Scenario1Points = <<10, 10, 10>>

\* valid rows supplied out of date order, with a restock among them
C2_Witness ==
  /\ Extracted /\ AllValid(raw_data) /\ Len(raw_data) >= 3
  /\ \E i \in 1..(Len(raw_data) - 1) : raw_data[i].Date.val > raw_data[i + 1].Date.val
  /\ \E i \in 1..Len(df_prophet) : df_prophet[i].y > 0
  /\ \E i \in 1..(Len(data) - 1) : data[i].Current_Stock.val < data[i + 1].Current_Stock.val

\* C3: a displayed recommendation never has a negative order quantity.
C3_OrderNonNegative == Produced => FGE(D.order_qty, Zero)

\* a negative raw forecast and more stock on hand than is needed
C3_Witness ==
  /\ Produced
  /\ FGT(Zero, D.f365_val) /\ FGT(Zero, D.f30_val)
  /\ FGT(D.current_stock, D.final_need)
  /\ FEq(D.order_qty, Zero)

\* C4: the fallback is 30 times the mean of all points of df_prophet, and
\* when both raw totals are below it and the mean is positive the final
\* need is exactly that fallback; points [10,10,10] give a fallback of 300.
C4_FallbackDominance ==
  /\ Produced =>
       /\ FEq(D.avg_daily_burn, Rat(SumY(df_prophet), Len(df_prophet)))
       /\ FEq(D.fallback, Rat(Horizon * SumY(df_prophet), Len(df_prophet)))
       /\ (/\ FGT(D.fallback, D.f365_val)
           /\ FGT(D.fallback, D.f30_val)
           /\ SumY(df_prophet) > 0) =>
            /\ FEq(D.final_need, Rat(Horizon * SumY(df_prophet), Len(df_prophet)))
            /\ FEq(D.f365_final, D.fallback)
            /\ FEq(D.f30_final, D.fallback)
  /\ FEq(Scenario1Mean, Rat(10, 1))
  /\ FEq(Scenario1Fallback, Rat(300, 1))
  /\ FEq(Scenario1Need, Rat(300, 1))

\* both raw totals below a positive fallback
C4_Witness ==
  /\ Produced
  /\ SumY(df_prophet) > 0
  /\ FGT(D.fallback, D.f365_val)
  /\ FGT(D.fallback, D.f30_val)
  /\ FEq(D.final_need, D.fallback)

\* C5: the final need is at least each raw total and the fallback, and
\* stock on hand plus the order covers the final need.
C5_SafeMaximum ==
  Produced =>
    /\ FGE(D.final_need, D.f365_val)
    /\ FGE(D.final_need, D.f30_val)
    /\ FGE(D.final_need, D.fallback)
    /\ FGE(FAdd(D.current_stock, D.order_qty), D.final_need)

\* the quantity of the dated row with the latest date
LatestStock(rows) ==
  LET last == CHOOSE i \in ValidDateIdx(rows) :
                \A j \in ValidDateIdx(rows) : rows[j].Date.val <= rows[i].Date.val
  IN ToFloat(rows[last].Current_Stock)

\* C6: the order is max(0, final_need - current_stock) and current_stock is
\* the quantity of the row with the latest date, in whatever order the rows
\* were supplied; a stock of 40 and a need of 300 give 260.
C6_OrderFromLatestStock ==
  /\ Produced =>
       /\ D.current_stock = LatestStock(raw_data)
       /\ D.order_qty = IF FGT(D.final_need, D.current_stock)
                        THEN FSub(D.final_need, D.current_stock)
                        ELSE Zero
  /\ FEq(Scenario3Order, Rat(260, 1))

\* C7: the winner is the seasonal model exactly when its floored total is
\* strictly greater than the reactive one's; a tie reports the reactive one.
C7_WinningModel ==
  Produced =>
    /\ D.winning_model \in {"Seasonal Baseline", "Recent Anomaly Detection"}
    /\ (D.winning_model = "Seasonal Baseline") <=> FGT(D.f365_final, D.f30_final)
    /\ FEq(D.f365_final, D.f30_final) => D.winning_model = "Recent Anomaly Detection"
    /\ FEq(D.f365_final, PyMax(D.f365_val, D.fallback))
    /\ FEq(D.f30_final, PyMax(D.f30_val, D.fallback))

\* both raw totals raised to the same fallback: a tie, reported as reactive
C7_Witness ==
  /\ Produced
  /\ FGT(D.fallback, D.f365_val) /\ FGT(D.fallback, D.f30_val)
  /\ ~FEq(D.f365_val, D.f30_val)
  /\ FEq(D.f365_final, D.f30_final)
  /\ D.winning_model = "Recent Anomaly Detection"

ValidRows(rows) == SelectSeq(rows, IsValidRow)

\* what a run on the valid rows alone extracts
PointsOfValidRows(rows) ==
  {DropNA(WithBurn(Reorder(ValidRows(rows), o))) : o \in SortOrders(ValidRows(rows))}

\* C9: rows with a missing or unparseable date or quantity are dropped
\* without aborting the run: the points are those of the valid rows alone
\* and current_stock is the quantity of the last valid row.
C9_InvalidRowsDropped ==
  /\ err # "TypeError"
  /\ Extracted => df_prophet \in PointsOfValidRows(raw_data)
  /\ Produced => D.current_stock = LatestStock(ValidRows(raw_data))

\* C10: when either fit raises the run ends in the error outcome with no
\* recommendation; a recommendation needs both models fitted; no model is
\* fit more than once in a run, and m30 is not fit after m365 failed.
C10_FitFailureSurfaced ==
  /\ (m365.status = "failed" \/ m30.status = "failed") =>
       /\ pc = "error"
       /\ err = "FitError"
       /\ decision = <<>>
  /\ Produced => (m365.status = "fitted" /\ m30.status = "fitted")
  /\ m365.fits <= 1 /\ m30.fits <= 1
  /\ m365.status = "failed" => m30 = NoModel

\* the seasonal model was fit and the reactive fit raised
C10_Witness ==
  /\ pc = "error"
  /\ m365.status = "fitted"
  /\ m30.status = "failed"
  /\ Len(df_prophet) >= MinPoints
  /\ decision = <<>>

====
